---- MODULE Spec2Model ----
(***************************************************************************)
(* Model of the Doughboard profit dashboard: src/server.js (the request    *)
(* handlers and calculateDashboardMetrics) and src/pages/index.js (the    *)
(* client's fetches).                                                      *)
(*                                                                         *)
(* JavaScript values.  A JS number is a record [t, v]: t = "num" with v    *)
(* the value in units of 1/Scale (exact decimal arithmetic: binary         *)
(* floating-point rounding is not modelled), t = "nan" for NaN, and        *)
(* t = "null" for null/undefined where a number is expected.  A JS string  *)
(* holding a number (total_price, price, a CSV cell, a spend) is a         *)
(* sequence of one-character strings; the empty sequence stands for both   *)
(* the empty string and a missing field (both are falsy, and parseFloat    *)
(* gives NaN for both).  An optional object is a sequence of length 0      *)
(* (null) or 1.                                                            *)
(***************************************************************************)
EXTENDS Integers, Sequences, FiniteSets, TLC

VARIABLES
    orders,         \* calculateDashboardMetrics: the `orders` argument
    storeSettings,  \* the shop's prisma.storeSettings record: <<>> (null) or <<record>>
    metrics,        \* the returned DashboardMetrics: <<>> before the call, <<record>> after
    req,            \* the request the server handled last: its path and what it read
    res,            \* the response to it: [status, json]
    adAccounts,     \* the shop's prisma.adAccount records
    loading,        \* the client's state: useState(true)
    dashboardData,  \* useState(null): <<>> or <<the JSON of /api/dashboard>>
    adSpendData,    \* useState(null): <<>> or <<the JSON of /api/ad-spend>>
    dashboardCalls, \* the calls of fetchDashboardData, in the order they started
    adSpendCalls    \* the calls of fetchAdSpendData, in the order they started

serverVars == <<storeSettings, req, res, adAccounts>>
clientVars == <<loading, dashboardData, adSpendData, dashboardCalls, adSpendCalls>>
vars == <<orders, metrics, serverVars, clientVars>>

\* ------------------------------------------------------------------ bounds
MaxOrders == 2
MaxItems == 2
MaxRows == 2
MaxAccounts == 2
MaxLoads == 1

\* ------------------------------------------------------------------ JS numbers
Scale == 10 * 100

Num(n) == [t |-> "num", v |-> n]
NaN == [t |-> "nan", v |-> 0]
Null == [t |-> "null", v |-> 0]
\* undefined where a number is expected: falsy, and NaN in arithmetic
Undefined == [t |-> "undefined", v |-> 0]
Int2Num(k) == Num(k * Scale)

IsNum(a) == a.t = "num"
\* Number(x) as the arithmetic operators apply it: null is 0
ToNumber(a) == IF a.t = "null" THEN Num(0) ELSE a
\* a + b, a - b, a * b, a / b on numbers (NaN is contagious)
JsAdd(a, b) ==
    LET x == ToNumber(a)
        y == ToNumber(b)
    IN  IF IsNum(x) /\ IsNum(y) THEN Num(x.v + y.v) ELSE NaN
JsSub(a, b) ==
    LET x == ToNumber(a)
        y == ToNumber(b)
    IN  IF IsNum(x) /\ IsNum(y) THEN Num(x.v - y.v) ELSE NaN
JsMul(a, b) ==
    LET x == ToNumber(a)
        y == ToNumber(b)
    IN  IF IsNum(x) /\ IsNum(y) THEN Num((x.v * y.v) \div Scale) ELSE NaN
\* b = 0 gives NaN or an infinity in JS; no division of the program has a zero divisor
JsDiv(a, b) ==
    LET x == ToNumber(a)
        y == ToNumber(b)
    IN  IF IsNum(x) /\ IsNum(y) /\ y.v # 0 THEN Num((x.v * Scale) \div y.v) ELSE NaN
\* the truthiness of a number: 0, NaN, null and undefined are falsy
Truthy(a) == IsNum(a) /\ a.v # 0

\* ------------------------------------------------------------------ parseFloat
Digits == <<"0", "1", "2", "3", "4", "5", "6", "7", "8", "9">>
IsDigit(c) == \E d \in 1..Len(Digits) : Digits[d] = c
DigitVal(c) == (CHOOSE d \in 1..Len(Digits) : Digits[d] = c) - 1

\* the number of leading digits of s from position i on
RECURSIVE digitRun(_, _)
digitRun(s, i) ==
    IF i <= Len(s) /\ IsDigit(s[i]) THEN 1 + digitRun(s, i + 1) ELSE 0

\* the value of the n digits of s from position i on, as an integer
RECURSIVE digitsValue(_, _, _)
digitsValue(s, i, n) ==
    IF n = 0 THEN 0 ELSE digitsValue(s, i, n - 1) * 10 + DigitVal(s[i + n - 1])

RECURSIVE pow10(_)
pow10(k) == IF k = 0 THEN 1 ELSE 10 * pow10(k - 1)

\* parseFloat(s): the longest prefix [-]digits[.digits] of s, NaN when it has no
\* digit; whatever follows the prefix is ignored.  Three fractional digits are kept.
parseFloat(s) ==
    LET neg == Len(s) >= 1 /\ s[1] = "-"
        b == IF neg THEN 2 ELSE 1
        nInt == digitRun(s, b)
        dot == b + nInt <= Len(s) /\ s[b + nInt] = "."
        nFracAll == IF dot THEN digitRun(s, b + nInt + 1) ELSE 0
        nFrac == IF nFracAll > 3 THEN 3 ELSE nFracAll
        mag == digitsValue(s, b, nInt) * Scale
               + digitsValue(s, b + nInt + 1, nFrac) * pow10(3 - nFrac)
    IN  IF nInt = 0 /\ nFracAll = 0 THEN NaN
        ELSE Num(IF neg THEN 0 - mag ELSE mag)

\* ------------------------------------------------------------------ calculateDashboardMetrics
\* storeSettings?.customCOGS?.[sku]: the mapped cost, undefined without a record or a key
customCOGSOf(settings, sku) ==
    IF Len(settings) = 0 THEN Null
    ELSE IF sku \in DOMAIN settings[1].customCOGS THEN settings[1].customCOGS[sku]
    ELSE Null

\* storeSettings?.defaultCOGSPercentage
defaultCOGSPercentageOf(settings) ==
    IF Len(settings) = 0 THEN Null ELSE settings[1].defaultCOGSPercentage

\* the unit COGS of one line item
unitCOGS(item, settings) ==
    LET price == parseFloat(item.price)
    IN  IF Truthy(customCOGSOf(settings, item.sku))
        THEN settings[1].customCOGS[item.sku]
        ELSE IF Truthy(defaultCOGSPercentageOf(settings))
        THEN JsMul(price, JsDiv(settings[1].defaultCOGSPercentage, Int2Num(100)))
        ELSE Int2Num(0)

\* order.line_items.forEach: orderCOGS after the items j..Len(items), from orderCOGS
RECURSIVE lineItemsLoop(_, _, _, _)
lineItemsLoop(items, j, orderCOGS, settings) ==
    IF j > Len(items) THEN orderCOGS
    ELSE lineItemsLoop(items, j + 1,
            JsAdd(orderCOGS, JsMul(unitCOGS(items[j], settings), Int2Num(items[j].quantity))),
            settings)

\* orderStep with `totalCOGS = orderCOGS` for `totalCOGS += orderCOGS`
orderStepAssignCOGS(acc, order, settings) ==
    LET revenue == parseFloat(order.total_price)
        orderCOGS == lineItemsLoop(order.line_items, 1, Int2Num(0), settings)
        email == order.email
        seen == email \in acc.customerEmails
    IN  [totalRevenue |-> JsAdd(acc.totalRevenue, revenue),
         totalCOGS |-> orderCOGS,
         newCustomerRevenue |->
            IF email # "" /\ ~seen THEN JsAdd(acc.newCustomerRevenue, revenue)
            ELSE acc.newCustomerRevenue,
         returningCustomerRevenue |->
            IF email # "" /\ seen THEN JsAdd(acc.returningCustomerRevenue, revenue)
            ELSE acc.returningCustomerRevenue,
         customerEmails |->
            IF email # "" THEN acc.customerEmails \cup {email} ELSE acc.customerEmails]

\* orderStep without customerEmails.add(email)
orderStepNoAdd(acc, order, settings) ==
    LET revenue == parseFloat(order.total_price)
        orderCOGS == lineItemsLoop(order.line_items, 1, Int2Num(0), settings)
        email == order.email
        seen == email \in acc.customerEmails
    IN  [totalRevenue |-> JsAdd(acc.totalRevenue, revenue),
         totalCOGS |-> JsAdd(acc.totalCOGS, orderCOGS),
         newCustomerRevenue |->
            IF email # "" /\ ~seen THEN JsAdd(acc.newCustomerRevenue, revenue)
            ELSE acc.newCustomerRevenue,
         returningCustomerRevenue |->
            IF email # "" /\ seen THEN JsAdd(acc.returningCustomerRevenue, revenue)
            ELSE acc.returningCustomerRevenue,
         customerEmails |-> acc.customerEmails]

\* orderStep without the `if (email)` around the classification
orderStepNoEmailCheck(acc, order, settings) ==
    LET revenue == parseFloat(order.total_price)
        orderCOGS == lineItemsLoop(order.line_items, 1, Int2Num(0), settings)
        email == order.email
        seen == email \in acc.customerEmails
    IN  [totalRevenue |-> JsAdd(acc.totalRevenue, revenue),
         totalCOGS |-> JsAdd(acc.totalCOGS, orderCOGS),
         newCustomerRevenue |->
            IF ~seen THEN JsAdd(acc.newCustomerRevenue, revenue)
            ELSE acc.newCustomerRevenue,
         returningCustomerRevenue |->
            IF seen THEN JsAdd(acc.returningCustomerRevenue, revenue)
            ELSE acc.returningCustomerRevenue,
         customerEmails |-> acc.customerEmails \cup {email}]

\* the body of orders.forEach on one order: the accumulators after it
orderStep(acc, order, settings) ==
    LET revenue == parseFloat(order.total_price)
        orderCOGS == lineItemsLoop(order.line_items, 1, Int2Num(0), settings)
        email == order.email
        seen == email \in acc.customerEmails
    IN  [totalRevenue |-> JsAdd(acc.totalRevenue, revenue),
         totalCOGS |-> JsAdd(acc.totalCOGS, orderCOGS),
         newCustomerRevenue |->
            IF email # "" /\ ~seen THEN JsAdd(acc.newCustomerRevenue, revenue)
            ELSE acc.newCustomerRevenue,
         returningCustomerRevenue |->
            IF email # "" /\ seen THEN JsAdd(acc.returningCustomerRevenue, revenue)
            ELSE acc.returningCustomerRevenue,
         customerEmails |->
            IF email # "" THEN acc.customerEmails \cup {email} ELSE acc.customerEmails]

RECURSIVE ordersLoop(_, _, _, _)
ordersLoop(os, i, acc, settings) ==
    IF i > Len(os) THEN acc
    ELSE ordersLoop(os, i + 1, orderStep(acc, os[i], settings), settings)

calculateDashboardMetrics(os, settings) ==
    LET acc == ordersLoop(os, 1,
                   [totalRevenue |-> Int2Num(0), totalCOGS |-> Int2Num(0),
                    newCustomerRevenue |-> Int2Num(0),
                    returningCustomerRevenue |-> Int2Num(0),
                    customerEmails |-> {}],
                   settings)
    IN  [totalRevenue |-> acc.totalRevenue,
         totalCOGS |-> acc.totalCOGS,
         grossProfit |-> JsSub(acc.totalRevenue, acc.totalCOGS),
         newCustomerRevenue |-> acc.newCustomerRevenue,
         returningCustomerRevenue |-> acc.returningCustomerRevenue,
         orderCount |-> Len(os),
         averageOrderValue |->
            IF Len(os) > 0 THEN JsDiv(acc.totalRevenue, Int2Num(Len(os))) ELSE Int2Num(0)]

\* ------------------------------------------------------------------ inputs
SeqsUpTo(S, n) == UNION {[1..k -> S] : k \in 0..n}

\* "10", "2.50", "abc", "-5"
TotalPrices == {<<"1", "0">>, <<"2", ".", "5", "0">>, <<"a", "b", "c">>, <<"-", "5">>}
\* "" is an order without an email
Emails == {"", "a@x", "b@x"}
SKUs == {"X", "Y"}
\* "10", "abc" and a missing price
ItemPrices == {<<"1", "0">>, <<"a", "b", "c">>, <<>>}
Quantities == {0, 2}
Items == [sku : SKUs, quantity : Quantities, price : ItemPrices]

\* the per-SKU overrides: none, a cost of 0, a cost of 1.50
CustomCOGSMaps ==
    {<<>>} \cup {[s \in {"X"} |-> c] : c \in {Int2Num(0), Num(1500)}}
Percentages == {Int2Num(0), Int2Num(30)}
SettingsRecords == [defaultCOGSPercentage : Percentages, customCOGS : CustomCOGSMaps]
SettingsInputs == {<<>>} \cup {<<r>> : r \in SettingsRecords}

\* orders that differ in price and email, over a few line-item lists
FewItemLists ==
    {<<>>,
     <<[sku |-> "X", quantity |-> 2, price |-> <<"1", "0">>]>>,
     <<[sku |-> "Y", quantity |-> 2, price |-> <<"1", "0">>],
       [sku |-> "X", quantity |-> 2, price |-> <<"1", "0">>]>>}
HeaderOrders == [total_price : TotalPrices, email : Emails, line_items : FewItemLists]
\* one order, over every list of at most MaxItems line items
ItemOrders ==
    [total_price : {<<"1", "0">>}, email : {"a@x"}, line_items : SeqsUpTo(Items, MaxItems)]
OrderInputs == SeqsUpTo(HeaderOrders, MaxOrders) \cup {<<o>> : o \in ItemOrders}

\* ------------------------------------------------------------------ SpecMetrics
\* the client as the component mounts, before its effect runs
ClientInit ==
    /\ loading = TRUE
    /\ dashboardData = <<>>
    /\ adSpendData = <<>>
    /\ dashboardCalls = <<>>
    /\ adSpendCalls = <<>>

NoRequest ==
    [path |-> "", fault |-> "none", orders |-> <<>>, csv |-> <<>>, body |-> <<>>,
     reads |-> <<>>]
NoResponse == [status |-> 0, json |-> <<>>]

InitMetrics ==
    /\ orders \in OrderInputs
    /\ storeSettings \in SettingsInputs
    /\ metrics = <<>>
    /\ req = NoRequest
    /\ res = NoResponse
    /\ adAccounts = <<>>
    /\ ClientInit

Calculate ==
    /\ metrics = <<>>
    /\ metrics' = <<calculateDashboardMetrics(orders, storeSettings)>>
    /\ UNCHANGED <<orders, serverVars, clientVars>>

NextMetrics == Calculate

SpecMetrics == InitMetrics /\ [][NextMetrics]_vars

\* ------------------------------------------------------------------ properties of calculateDashboardMetrics
Calculated == Len(metrics) = 1
revenueOf(o) == parseFloat(o.total_price)

\* the sum of a sequence of numbers
RECURSIVE SumNums(_)
SumNums(s) ==
    IF Len(s) = 0 THEN Int2Num(0) ELSE JsAdd(SumNums(SubSeq(s, 1, Len(s) - 1)), s[Len(s)])

\* the line items of all the orders, in order
RECURSIVE AllItems(_)
AllItems(os) ==
    IF Len(os) = 0 THEN <<>>
    ELSE AllItems(SubSeq(os, 1, Len(os) - 1)) \o os[Len(os)].line_items

SumRevenue == SumNums([i \in 1..Len(orders) |-> revenueOf(orders[i])])
SumItemCOGS ==
    LET its == AllItems(orders)
    IN  SumNums([k \in 1..Len(its) |->
            JsMul(unitCOGS(its[k], storeSettings), Int2Num(its[k].quantity))])

\* C1: the returned grossProfit is totalRevenue - totalCOGS, totalRevenue being the sum
\* of the orders' total_price and totalCOGS the sum over all the line items of all the
\* orders of unit COGS times quantity (NaN compared as a value, as Object.is does).
C1_GrossProfit ==
    Calculated =>
        /\ metrics[1].totalRevenue = SumRevenue
        /\ metrics[1].totalCOGS = SumItemCOGS
        /\ metrics[1].grossProfit = JsSub(SumRevenue, SumItemCOGS)

\* two orders with line items, a non-zero COGS in each, and a numeric gross profit
C1_Witness ==
    /\ Calculated
    /\ Len(orders) = 2
    /\ \A i \in 1..2 :
          LET c == lineItemsLoop(orders[i].line_items, 1, Int2Num(0), storeSettings)
          IN  IsNum(c) /\ c.v > 0
    /\ IsNum(metrics[1].grossProfit)
    /\ metrics[1].totalRevenue.v > 0

\* the unit COGS the specification gives a line item: the mapped cost when the SKU is
\* a key of customCOGS, whatever the cost, else the percentage of the price, else 0
claimedUnitCOGS(item, settings) ==
    IF Len(settings) = 1 /\ item.sku \in DOMAIN settings[1].customCOGS
    THEN settings[1].customCOGS[item.sku]
    ELSE IF Truthy(defaultCOGSPercentageOf(settings))
    THEN JsMul(parseFloat(item.price), JsDiv(settings[1].defaultCOGSPercentage, Int2Num(100)))
    ELSE Int2Num(0)

\* C2: every line item whose SKU is a key of customCOGS is costed at exactly the mapped
\* unit cost (a cost of 0 included), whatever defaultCOGSPercentage is: totalCOGS is the
\* sum of that unit cost times quantity.
C2_CustomCOGSUsed ==
    Calculated =>
        LET its == AllItems(orders)
        IN  metrics[1].totalCOGS =
                SumNums([k \in 1..Len(its) |->
                    JsMul(claimedUnitCOGS(its[k], storeSettings), Int2Num(its[k].quantity))])

\* order i has an email that no earlier order of the list has
FirstOccurrence(i) ==
    /\ orders[i].email # ""
    /\ \A j \in 1..(i - 1) : orders[j].email # orders[i].email
\* order i has an email that an earlier order of the list has
LaterOccurrence(i) ==
    /\ orders[i].email # ""
    /\ \E j \in 1..(i - 1) : orders[j].email = orders[i].email

\* C3: an order with an email counts as new exactly when no earlier order of the input
\* has the same email, and as returning otherwise: newCustomerRevenue is the revenue of
\* the first occurrences, returningCustomerRevenue that of the later ones.
C3_ArrivalOrder ==
    Calculated =>
        /\ metrics[1].newCustomerRevenue =
              SumNums([i \in 1..Len(orders) |->
                  IF FirstOccurrence(i) THEN revenueOf(orders[i]) ELSE Int2Num(0)])
        /\ metrics[1].returningCustomerRevenue =
              SumNums([i \in 1..Len(orders) |->
                  IF LaterOccurrence(i) THEN revenueOf(orders[i]) ELSE Int2Num(0)])

\* input [A, B] with one email and two different prices: A is new, B is returning
C3_Witness ==
    /\ Calculated
    /\ Len(orders) = 2
    /\ orders[1].email # "" /\ orders[1].email = orders[2].email
    /\ IsNum(revenueOf(orders[1])) /\ IsNum(revenueOf(orders[2]))
    /\ revenueOf(orders[1]) # revenueOf(orders[2])
    /\ metrics[1].newCustomerRevenue = revenueOf(orders[1])
    /\ metrics[1].returningCustomerRevenue = revenueOf(orders[2])

\* a numeric string stays, anything else becomes "0"
zeroed(s) == IF IsNum(parseFloat(s)) THEN s ELSE <<"0">>
zeroedOrders(os) ==
    [i \in 1..Len(os) |->
        [total_price |-> zeroed(os[i].total_price),
         email |-> os[i].email,
         line_items |->
            [j \in 1..Len(os[i].line_items) |->
                [sku |-> os[i].line_items[j].sku,
                 quantity |-> os[i].line_items[j].quantity,
                 price |-> zeroed(os[i].line_items[j].price)]]]]

\* C6: a missing or non-numeric total_price or price counts as 0: every field of the
\* result is a number, and the result is that of the input with each such value
\* replaced by 0.
C6_NonNumericIsZero ==
    Calculated =>
        /\ IsNum(metrics[1].totalRevenue)
        /\ IsNum(metrics[1].totalCOGS)
        /\ IsNum(metrics[1].grossProfit)
        /\ IsNum(metrics[1].newCustomerRevenue)
        /\ IsNum(metrics[1].returningCustomerRevenue)
        /\ IsNum(metrics[1].averageOrderValue)
        /\ metrics[1] = calculateDashboardMetrics(zeroedOrders(orders), storeSettings)

NonNegativePrices ==
    \A i \in 1..Len(orders) : IsNum(revenueOf(orders[i])) /\ revenueOf(orders[i]).v >= 0

\* C8: with non-negative prices newCustomerRevenue + returningCustomerRevenue is at most
\* totalRevenue: the two buckets hold the revenue of the orders with an email, each in
\* one bucket, and the orders without an email make up the rest of totalRevenue.
C8_BucketsWithinRevenue ==
    (Calculated /\ NonNegativePrices) =>
        LET both == JsAdd(metrics[1].newCustomerRevenue, metrics[1].returningCustomerRevenue)
        IN  /\ both.v <= metrics[1].totalRevenue.v
            /\ both = SumNums([i \in 1..Len(orders) |->
                          IF orders[i].email # "" THEN revenueOf(orders[i]) ELSE Int2Num(0)])
            /\ metrics[1].totalRevenue =
                  JsAdd(both, SumNums([i \in 1..Len(orders) |->
                          IF orders[i].email = "" THEN revenueOf(orders[i]) ELSE Int2Num(0)]))

\* an order without an email and one with an email, both with a positive price
C8_Witness ==
    /\ Calculated
    /\ NonNegativePrices
    /\ Len(orders) = 2
    /\ orders[1].email = "" /\ revenueOf(orders[1]).v > 0
    /\ orders[2].email # "" /\ revenueOf(orders[2]).v > 0
    /\ metrics[1].newCustomerRevenue = revenueOf(orders[2])
    /\ metrics[1].returningCustomerRevenue = Int2Num(0)
    /\ metrics[1].newCustomerRevenue.v < metrics[1].totalRevenue.v

\* C9: a line item with quantity 0 adds exactly 0 to totalCOGS, for every price and
\* every settings object: totalCOGS is the COGS of the line items with another quantity.
C9_ZeroQuantity ==
    Calculated =>
        LET its == SelectSeq(AllItems(orders), LAMBDA it : it.quantity # 0)
        IN  metrics[1].totalCOGS =
                SumNums([k \in 1..Len(its) |->
                    JsMul(unitCOGS(its[k], storeSettings), Int2Num(its[k].quantity))])

\* ------------------------------------------------------------------ the server's handlers
\* A handler's external reads (the orders, the database, the uploaded file) are its
\* inputs; `fault` names the one read that throws, "none" when all succeed.
ErrorResponse(msg) == [status |-> 500, json |-> <<[error |-> msg]>>]
OkResponse(body) == [status |-> 200, json |-> <<body>>]

\* res.json writes a number as JSON: NaN becomes null
jsonNumber(a) == IF a.t = "nan" THEN Null ELSE a
metricsJSON(m) ==
    [totalRevenue |-> jsonNumber(m.totalRevenue),
     totalCOGS |-> jsonNumber(m.totalCOGS),
     grossProfit |-> jsonNumber(m.grossProfit),
     newCustomerRevenue |-> jsonNumber(m.newCustomerRevenue),
     returningCustomerRevenue |-> jsonNumber(m.returningCustomerRevenue),
     orderCount |-> m.orderCount,
     averageOrderValue |-> jsonNumber(m.averageOrderValue)]

\* dashboardHandler answering a failed read with the metrics of no orders
dashboardHandlerZero(os, settings, fault) ==
    IF fault \in {"orders", "settings"}
    THEN OkResponse(metricsJSON(calculateDashboardMetrics(<<>>, <<>>)))
    ELSE OkResponse(metricsJSON(calculateDashboardMetrics(os, settings)))

\* app.get('/api/dashboard'): the orders read, the settings read, the metrics
dashboardHandler(os, settings, fault) ==
    IF fault \in {"orders", "settings"}
    THEN ErrorResponse("Failed to fetch dashboard data")
    ELSE OkResponse(metricsJSON(calculateDashboardMetrics(os, settings)))

\* response.data.data.reduce((sum, day) => sum + parseFloat(day.spend), 0), from day i on
RECURSIVE spendReduce(_, _, _)
spendReduce(data, i, sum) ==
    IF i > Len(data) THEN sum
    ELSE spendReduce(data, i + 1, JsAdd(sum, parseFloat(data[i])))

\* fetchMetaAdSpend whose catch returns no number as the total
fetchMetaAdSpendNaN(read) ==
    IF read.ok
    THEN [total |-> spendReduce(read.data, 1, Int2Num(0)), daily |-> read.data]
    ELSE [total |-> NaN, daily |-> <<>>]

\* fetchMetaAdSpend: `read` is what the insights request does: it throws (ok = FALSE)
\* or answers with the days' spends
fetchMetaAdSpend(read) ==
    IF read.ok
    THEN [total |-> spendReduce(read.data, 1, Int2Num(0)), daily |-> read.data]
    ELSE [total |-> Int2Num(0), daily |-> <<>>]

\* fetchGoogleAdSpend: a placeholder that makes no request
fetchGoogleAdSpend(read) == [total |-> Int2Num(0), daily |-> <<>>]

\* the two loops of app.get('/api/ad-spend') over the accounts of one platform, from
\* account i on; acc is [totalAdSpend, adSpendData]; reads[i] is the read of account i
RECURSIVE adSpendLoop(_, _, _, _, _)
adSpendLoop(accounts, reads, platform, i, acc) ==
    IF i > Len(accounts) THEN acc
    ELSE IF accounts[i].platform # platform
    THEN adSpendLoop(accounts, reads, platform, i + 1, acc)
    ELSE LET spend == IF platform = "meta" THEN fetchMetaAdSpend(reads[i])
                      ELSE fetchGoogleAdSpend(reads[i])
         IN  adSpendLoop(accounts, reads, platform, i + 1,
                 [totalAdSpend |-> JsAdd(acc.totalAdSpend, spend.total),
                  adSpendData |-> Append(acc.adSpendData,
                      [platform |-> IF platform = "meta" THEN "Meta" ELSE "Google",
                       total |-> jsonNumber(spend.total),
                       daily |-> spend.daily])])

\* app.get('/api/ad-spend'): the accounts read, the Meta accounts, the Google accounts
adSpendHandler(accounts, reads, fault) ==
    IF fault = "accounts"
    THEN ErrorResponse("Failed to fetch ad spend data")
    ELSE LET meta == adSpendLoop(accounts, reads, "meta", 1,
                         [totalAdSpend |-> Int2Num(0), adSpendData |-> <<>>])
             all == adSpendLoop(accounts, reads, "google", 1, meta)
         IN  OkResponse([totalAdSpend |-> jsonNumber(all.totalAdSpend),
                         breakdown |-> all.adSpendData])

\* customCOGS || {} on the body's customCOGS (<<>> when the body has none)
customCOGSOrEmpty(body) == IF Len(body.customCOGS) = 0 THEN <<>> ELSE body.customCOGS[1]

\* settingsUpsert with `customCOGS` for `customCOGS || {}`: an update without the field
\* leaves the stored mapping
settingsUpsertKeep(settings, body) ==
    <<[defaultCOGSPercentage |-> body.defaultCOGSPercentage,
       customCOGS |->
          IF Len(body.customCOGS) = 1 THEN body.customCOGS[1]
          ELSE IF Len(settings) = 1 THEN settings[1].customCOGS
          ELSE <<>>]>>

\* app.post('/api/settings'): the record the upsert leaves, by its update and create arms
settingsUpsert(settings, body) ==
    <<[defaultCOGSPercentage |-> body.defaultCOGSPercentage,
       customCOGS |-> customCOGSOrEmpty(body)]>>

\* a parsed CSV is its header (the name of the column of SKUs, then that of the column
\* of costs) and its rows (a SKU, "" when empty, and a cost); row.NAME is the cell of
\* the column called NAME, undefined (here "" or <<>>) when no column has that name
skuCell(csv, i, name) == IF csv.header[1] = name THEN csv.rows[i][1] ELSE ""
cogsCell(csv, i, name) == IF csv.header[2] = name THEN csv.rows[i][2] ELSE <<>>
\* row.SKU || row.sku || row.Sku
rowSKU(csv, i) ==
    IF skuCell(csv, i, "SKU") # "" THEN skuCell(csv, i, "SKU")
    ELSE IF skuCell(csv, i, "sku") # "" THEN skuCell(csv, i, "sku")
    ELSE skuCell(csv, i, "Sku")
\* parseFloat(row.COGS || row.cogs || row.Cogs)
rowCOGS(csv, i) ==
    parseFloat(IF Len(cogsCell(csv, i, "COGS")) > 0 THEN cogsCell(csv, i, "COGS")
               ELSE IF Len(cogsCell(csv, i, "cogs")) > 0 THEN cogsCell(csv, i, "cogs")
               ELSE cogsCell(csv, i, "Cogs"))

\* recordsLoop with `if (sku)` for `if (sku && !isNaN(cogs))`
RECURSIVE recordsLoopNoNaNCheck(_, _, _)
recordsLoopNoNaNCheck(csv, i, customCOGS) ==
    IF i > Len(csv.rows) THEN customCOGS
    ELSE recordsLoopNoNaNCheck(csv, i + 1,
            IF rowSKU(csv, i) # ""
            THEN (rowSKU(csv, i) :> rowCOGS(csv, i)) @@ customCOGS
            ELSE customCOGS)

\* records.forEach: customCOGS after the rows i..Len(rows), from customCOGS
RECURSIVE recordsLoop(_, _, _)
recordsLoop(csv, i, customCOGS) ==
    IF i > Len(csv.rows) THEN customCOGS
    ELSE recordsLoop(csv, i + 1,
            IF rowSKU(csv, i) # "" /\ rowCOGS(csv, i).t # "nan"
            THEN (rowSKU(csv, i) :> rowCOGS(csv, i)) @@ customCOGS
            ELSE customCOGS)

\* app.post('/api/upload-cogs'): the record the upsert leaves; its update arm replaces
\* customCOGS alone, its create arm gives no defaultCOGSPercentage.  The column's
\* default is in the database schema, which the source does not show: it is taken as
\* null, and a record with another percentage is reached by a settings save before
\* the upload.
uploadUpsert(settings, customCOGS) ==
    IF Len(settings) = 1
    THEN <<[defaultCOGSPercentage |-> settings[1].defaultCOGSPercentage,
            customCOGS |-> customCOGS]>>
    ELSE <<[defaultCOGSPercentage |-> Null, customCOGS |-> customCOGS]>>

\* ------------------------------------------------------------------ requests
\* "SKU,COGS" files over every list of at most MaxRows rows, and one row under the
\* other spellings of the header and under two headers the handler does not know.
\* The rows: no SKU, a cost of "abc", the costs "0" and "1.50", and the cost "2x",
\* which parseFloat reads as 2
CsvRows ==
    {<<"", <<"1", ".", "5", "0">> >>,
     <<"X", <<"a", "b", "c">> >>,
     <<"X", <<"0">> >>,
     <<"X", <<"1", ".", "5", "0">> >>,
     <<"Y", <<"2", "x">> >>}
OtherHeaders ==
    {<<"sku", "cogs">>, <<"Sku", "Cogs">>, <<"SKU", "Cost">>, <<"Item", "COGS">>}
CsvInputs ==
    {[header |-> <<"SKU", "COGS">>, rows |-> r] : r \in SeqsUpTo(CsvRows, MaxRows)}
    \cup {[header |-> h, rows |-> << <<"X", <<"1", ".", "5", "0">> >> >>] : h \in OtherHeaders}

SettingsBodies ==
    [defaultCOGSPercentage : Percentages,
     customCOGS : {<<>>, << <<>> >>, <<[s \in {"X"} |-> Num(1500)]>>}]

\* the orders a dashboard request reads: none, or one order of one line item
ServerOrders ==
    {<<>>} \cup
    {<<[total_price |-> <<"1", "0">>, email |-> "a@x",
        line_items |-> <<[sku |-> k, quantity |-> 2, price |-> <<"1", "0">>]>>]>> :
        k \in SKUs}

InitServer ==
    /\ storeSettings = <<>>
    /\ req = NoRequest
    /\ res = NoResponse
    /\ adAccounts = <<>>
    /\ ClientInit
    /\ orders = <<>>
    /\ metrics = <<>>

GetDashboard ==
    \E os \in ServerOrders, fault \in {"none", "orders", "settings"} :
        /\ req' = [NoRequest EXCEPT !.path = "/api/dashboard", !.fault = fault, !.orders = os]
        /\ res' = dashboardHandler(os, storeSettings, fault)
        /\ UNCHANGED <<storeSettings, adAccounts, orders, metrics, clientVars>>

PostSettings ==
    \E body \in SettingsBodies, fault \in {"none", "upsert"} :
        /\ req' = [NoRequest EXCEPT !.path = "/api/settings", !.fault = fault, !.body = <<body>>]
        /\ IF fault = "upsert"
           THEN /\ res' = ErrorResponse("Failed to save settings")
                /\ UNCHANGED storeSettings
           ELSE /\ storeSettings' = settingsUpsert(storeSettings, body)
                /\ res' = OkResponse(storeSettings'[1])
        /\ UNCHANGED <<adAccounts, orders, metrics, clientVars>>

\* the faults in the handler's order: reading or parsing the file, the upsert, and the
\* unlink, which comes after the upsert has saved
PostUploadCogs ==
    \E csv \in CsvInputs, fault \in {"none", "parse", "upsert", "unlink"} :
        LET customCOGS == recordsLoop(csv, 1, <<>>)
        IN  /\ req' = [NoRequest EXCEPT !.path = "/api/upload-cogs", !.fault = fault,
                                        !.csv = <<csv>>]
            /\ IF fault \in {"parse", "upsert"}
               THEN UNCHANGED storeSettings
               ELSE storeSettings' = uploadUpsert(storeSettings, customCOGS)
            /\ res' = IF fault = "none"
                      THEN OkResponse([success |-> TRUE,
                                       itemsProcessed |-> Cardinality(DOMAIN customCOGS)])
                      ELSE ErrorResponse("Failed to process COGS file")
            /\ UNCHANGED <<adAccounts, orders, metrics, clientVars>>

NextServer == GetDashboard \/ PostSettings \/ PostUploadCogs

SpecServer == InitServer /\ [][NextServer]_vars

\* ------------------------------------------------------------------ properties of the upload
\* a row the upload keeps: it has a SKU and its cost reads as a number
WellFormed(csv, i) == rowSKU(csv, i) # "" /\ IsNum(rowCOGS(csv, i))
WellFormedRows(csv) == {i \in 1..Len(csv.rows) : WellFormed(csv, i)}
UploadedSKUs(csv) == {rowSKU(csv, i) : i \in WellFormedRows(csv)}
\* the last well-formed row of SKU k
LastRow(csv, k) ==
    CHOOSE i \in WellFormedRows(csv) :
        /\ rowSKU(csv, i) = k
        /\ \A j \in WellFormedRows(csv) : rowSKU(csv, j) = k => j <= i

\* C5: round trip: when a successful upload is followed by a dashboard computation, every
\* line item whose SKU a row of the file gives a cost c is costed at exactly c per unit.
C5_RoundTrip ==
    [][(/\ req.path = "/api/upload-cogs" /\ res.status = 200
        /\ req'.path = "/api/dashboard" /\ res'.status = 200)
       => LET csv == req.csv[1]
              its == AllItems(req'.orders)
          IN  res'.json[1].totalCOGS =
                  SumNums([k \in 1..Len(its) |->
                      JsMul(IF its[k].sku \in UploadedSKUs(csv)
                            THEN rowCOGS(csv, LastRow(csv, its[k].sku))
                            ELSE unitCOGS(its[k], storeSettings'),
                            Int2Num(its[k].quantity))])]_vars

\* C10: an upload whose reads succeed answers 200 whatever its rows are; it stores
\* exactly the SKUs of the rows that have a SKU and a numeric cost, each with the cost of
\* its last such row, and itemsProcessed is the number of those SKUs.
C10_UploadRows ==
    (req.path = "/api/upload-cogs" /\ req.fault = "none") =>
        LET csv == req.csv[1]
            saved == storeSettings[1].customCOGS
        IN  /\ res.status = 200
            /\ DOMAIN saved = UploadedSKUs(csv)
            /\ \A k \in UploadedSKUs(csv) : saved[k] = rowCOGS(csv, LastRow(csv, k))
            /\ res.json[1].itemsProcessed = Cardinality(UploadedSKUs(csv))

\* a file of a malformed row and a well-formed one: one SKU stored, the request answered
C10_Witness ==
    /\ req.path = "/api/upload-cogs"
    /\ res.status = 200
    /\ Len(req.csv[1].rows) = 2
    /\ ~WellFormed(req.csv[1], 1)
    /\ WellFormed(req.csv[1], 2)
    /\ DOMAIN storeSettings[1].customCOGS = {rowSKU(req.csv[1], 2)}
    /\ res.json[1].itemsProcessed = 1

\* the request wrote the record: a settings save whose upsert succeeded, or an upload
\* whose file was read and parsed and whose upsert succeeded (the unlink comes after)
SettingsWrite(r) == r.path = "/api/settings" /\ r.fault = "none"
UploadWrite(r) == r.path = "/api/upload-cogs" /\ r.fault \in {"none", "unlink"}
\* the mapping a successful write carries, as the set of its <<SKU, cost>> pairs: the
\* body's customCOGS (nothing when the body has no customCOGS), or for each SKU of the
\* file the cost of its last row that has a SKU and a numeric cost
WrittenPairs(r) ==
    IF SettingsWrite(r)
    THEN (IF Len(r.body[1].customCOGS) = 1
          THEN {<<k, r.body[1].customCOGS[1][k]>> : k \in DOMAIN r.body[1].customCOGS[1]}
          ELSE {})
    ELSE LET csv == r.csv[1]
             wf == WellFormedRows(csv)
         IN  {<<rowSKU(csv, i), rowCOGS(csv, i)>> :
                 i \in {i \in wf : \A j \in wf : j > i => rowSKU(csv, j) # rowSKU(csv, i)}}
\* the stored mapping as the set of its pairs
StoredPairs(settings) ==
    {<<k, settings[1].customCOGS[k]>> : k \in DOMAIN settings[1].customCOGS}

\* C12: both writers of customCOGS replace the whole mapping: after every successful
\* write the stored customCOGS has exactly the keys and costs of that write (none after
\* a settings save whose body has no customCOGS, whatever an earlier upload stored);
\* every other request leaves the record as it is, so the stored mapping is always that
\* of the last successful write; and an upload on an existing record leaves
\* defaultCOGSPercentage unchanged.
C12_WholeMappingReplaced ==
    /\ []((SettingsWrite(req) \/ UploadWrite(req)) =>
             /\ Len(storeSettings) = 1
             /\ StoredPairs(storeSettings) = WrittenPairs(req)
             /\ SettingsWrite(req) =>
                   storeSettings[1].defaultCOGSPercentage = req.body[1].defaultCOGSPercentage)
    /\ [][IF SettingsWrite(req') \/ UploadWrite(req')
          THEN (UploadWrite(req') /\ Len(storeSettings) = 1) =>
                  storeSettings'[1].defaultCOGSPercentage
                      = storeSettings[1].defaultCOGSPercentage
          ELSE storeSettings' = storeSettings]_vars

\* an upload of the one SKU Y onto a record that a settings save created with a
\* percentage of 30: the record keeps the 30 and maps Y alone
C12_Witness ==
    /\ req.path = "/api/upload-cogs"
    /\ res.status = 200
    /\ Len(storeSettings) = 1
    /\ storeSettings[1].defaultCOGSPercentage = Int2Num(30)
    /\ DOMAIN storeSettings[1].customCOGS = {"Y"}
    /\ storeSettings[1].customCOGS["Y"] = Int2Num(2)

\* ------------------------------------------------------------------ SpecAdSpend
Platforms == {"meta", "google"}
AccountInputs == SeqsUpTo([platform : Platforms], MaxAccounts)
\* what one account's request does: it throws, or answers with "5", or with "1.50" and
\* "2.50", or with a spend that is no number
SpendData == {<<<<"5">>>>, <<<<"1", ".", "5", "0">>, <<"2", ".", "5", "0">>>>, <<<<"a", "b", "c">>>>}
Reads == [ok : BOOLEAN, data : SpendData]

InitAdSpend ==
    /\ adAccounts \in AccountInputs
    /\ storeSettings = <<>>
    /\ req = NoRequest
    /\ res = NoResponse
    /\ orders = <<>>
    /\ metrics = <<>>
    /\ ClientInit

GetAdSpend ==
    \E reads \in [1..Len(adAccounts) -> Reads], fault \in {"none", "accounts"} :
        /\ req' = [NoRequest EXCEPT !.path = "/api/ad-spend", !.fault = fault, !.reads = reads]
        /\ res' = adSpendHandler(adAccounts, reads, fault)
        /\ UNCHANGED <<storeSettings, adAccounts, orders, metrics, clientVars>>

NextAdSpend == GetAdSpend

SpecAdSpend == InitAdSpend /\ [][NextAdSpend]_vars

\* ------------------------------------------------------------------ properties of the ad spend
\* the accounts in the order of the breakdown: the Meta accounts, then the Google ones
BreakdownOrder ==
    SelectSeq([i \in 1..Len(adAccounts) |-> i], LAMBDA i : adAccounts[i].platform = "meta")
    \o SelectSeq([i \in 1..Len(adAccounts) |-> i], LAMBDA i : adAccounts[i].platform = "google")
\* the external call of account i failed
CallFailed(reads, i) == adAccounts[i].platform = "meta" /\ ~reads[i].ok
\* the same reads with no failure
AllSucceed(reads) == [i \in DOMAIN reads |-> [reads[i] EXCEPT !.ok = TRUE]]
\* the total of the call of account i when it succeeds
callTotal(reads, i) ==
    IF adAccounts[i].platform = "meta"
    THEN SumNums([d \in 1..Len(reads[i].data) |-> parseFloat(reads[i].data[d])])
    ELSE Int2Num(0)

\* C4: whichever calls of a platform fail, the handler answers; the entry of every
\* account whose call did not fail is the one reported when no call fails, a failed
\* call is reported as {total: 0, daily: []}, and totalAdSpend is the sum of the totals
\* of the calls that succeeded.
C4_FailureIsolated ==
    (req.path = "/api/ad-spend" /\ req.fault = "none") =>
        LET b == res.json[1].breakdown
            b0 == adSpendHandler(adAccounts, AllSucceed(req.reads), "none").json[1].breakdown
            ord == BreakdownOrder
        IN  /\ res.status = 200
            /\ Len(b) = Len(ord) /\ Len(b0) = Len(ord)
            /\ \A k \in 1..Len(ord) :
                  IF CallFailed(req.reads, ord[k])
                  THEN b[k].total = Int2Num(0) /\ b[k].daily = <<>>
                  ELSE b[k] = b0[k] /\ b[k].total = jsonNumber(callTotal(req.reads, ord[k]))
            /\ res.json[1].totalAdSpend =
                  jsonNumber(SumNums([k \in 1..Len(ord) |->
                      IF CallFailed(req.reads, ord[k]) THEN Int2Num(0)
                      ELSE callTotal(req.reads, ord[k])]))

\* two Meta accounts, the call of the first fails and that of the second gives a total
C4_Witness ==
    /\ req.path = "/api/ad-spend"
    /\ res.status = 200
    /\ Len(adAccounts) = 2
    /\ adAccounts[1].platform = "meta" /\ adAccounts[2].platform = "meta"
    /\ ~req.reads[1].ok /\ req.reads[2].ok
    /\ res.json[1].totalAdSpend.t = "num" /\ res.json[1].totalAdSpend.v > 0
    /\ res.json[1].totalAdSpend = res.json[1].breakdown[2].total

\* ------------------------------------------------------------------ Spec: the dashboard load
\* The component mounts, its effect starts fetchDashboardData and fetchAdSpendData, the
\* server answers each request, and the client takes each response as it arrives.  A
\* call is [pc, fault, res]: "fetching" until the server has answered, "responded"
\* while the response travels, "done" once the call has returned; fault is the read
\* that threw in the handler and res the handler's response (none once fetch has
\* rejected).
NewCall == [pc |-> "fetching", fault |-> "none", res |-> NoResponse]

\* what one ad account's request does during a load: it throws or answers with "5"
LoadReads == [ok : BOOLEAN, data : {<<<<"5">>>>}]
\* the orders a load reads: none, or one order of one line item
LoadOrders ==
    {<<>>,
     <<[total_price |-> <<"1", "0">>, email |-> "a@x",
        line_items |-> <<[sku |-> "X", quantity |-> 2, price |-> <<"1", "0">>]>>]>>}

\* the shop's ad accounts during a load: none, a Meta account, a Meta and a Google one
LoadAccounts ==
    {<<>>, <<[platform |-> "meta"]>>, <<[platform |-> "meta"], [platform |-> "google"]>>}

Init ==
    /\ adAccounts \in LoadAccounts
    /\ storeSettings \in {<<>>, <<[defaultCOGSPercentage |-> Int2Num(30), customCOGS |-> <<>>]>>}
    /\ req = NoRequest
    /\ res = NoResponse
    /\ orders = <<>>
    /\ metrics = <<>>
    /\ ClientInit

\* useEffect(..., [timeRange]): on mount and on every change of the time range;
\* fetchDashboardData runs to its first await (setLoading(true), the request sent), then
\* fetchAdSpendData to its first await
RunEffect ==
    /\ Len(dashboardCalls) < MaxLoads
    /\ loading' = TRUE
    /\ dashboardCalls' = Append(dashboardCalls, NewCall)
    /\ adSpendCalls' = Append(adSpendCalls, NewCall)
    /\ UNCHANGED <<dashboardData, adSpendData, orders, metrics, serverVars>>

\* the server handles the request of call i of fetchDashboardData
ServeDashboard(i) ==
    /\ dashboardCalls[i].pc = "fetching"
    /\ \E os \in LoadOrders, fault \in {"none", "orders", "settings"} :
          dashboardCalls' = [dashboardCalls EXCEPT ![i] =
              [pc |-> "responded", fault |-> fault,
               res |-> dashboardHandler(os, storeSettings, fault)]]
    /\ UNCHANGED <<loading, dashboardData, adSpendData, adSpendCalls, orders, metrics,
                   serverVars>>

\* the server handles the request of call i of fetchAdSpendData
ServeAdSpend(i) ==
    /\ adSpendCalls[i].pc = "fetching"
    /\ \E reads \in [1..Len(adAccounts) -> LoadReads], fault \in {"none", "accounts"} :
          adSpendCalls' = [adSpendCalls EXCEPT ![i] =
              [pc |-> "responded", fault |-> fault,
               res |-> adSpendHandler(adAccounts, reads, fault)]]
    /\ UNCHANGED <<loading, dashboardData, adSpendData, dashboardCalls, orders, metrics,
                   serverVars>>

\* fetchDashboardData after its awaits: setDashboardData(data), then finally
ReceiveDashboard(i) ==
    /\ dashboardCalls[i].pc = "responded"
    /\ dashboardData' = dashboardCalls[i].res.json
    /\ loading' = FALSE
    /\ dashboardCalls' = [dashboardCalls EXCEPT ![i].pc = "done"]
    /\ UNCHANGED <<adSpendData, adSpendCalls, orders, metrics, serverVars>>

\* fetchDashboardData when fetch rejects (the network fails): catch, then finally
RejectDashboard(i) ==
    /\ dashboardCalls[i].pc \in {"fetching", "responded"}
    /\ loading' = FALSE
    /\ dashboardCalls' = [dashboardCalls EXCEPT ![i].pc = "done", ![i].res = NoResponse]
    /\ UNCHANGED <<dashboardData, adSpendData, adSpendCalls, orders, metrics, serverVars>>

\* ReceiveAdSpend with setDashboardData(data) for setAdSpendData(data)
ReceiveAdSpendShared(i) ==
    /\ adSpendCalls[i].pc = "responded"
    /\ dashboardData' = adSpendCalls[i].res.json
    /\ adSpendCalls' = [adSpendCalls EXCEPT ![i].pc = "done"]
    /\ UNCHANGED <<loading, adSpendData, dashboardCalls, orders, metrics, serverVars>>

\* fetchAdSpendData after its awaits: setAdSpendData(data)
ReceiveAdSpend(i) ==
    /\ adSpendCalls[i].pc = "responded"
    /\ adSpendData' = adSpendCalls[i].res.json
    /\ adSpendCalls' = [adSpendCalls EXCEPT ![i].pc = "done"]
    /\ UNCHANGED <<loading, dashboardData, dashboardCalls, orders, metrics, serverVars>>

\* fetchAdSpendData when fetch rejects: catch
RejectAdSpend(i) ==
    /\ adSpendCalls[i].pc \in {"fetching", "responded"}
    /\ adSpendCalls' = [adSpendCalls EXCEPT ![i].pc = "done", ![i].res = NoResponse]
    /\ UNCHANGED <<loading, dashboardData, adSpendData, dashboardCalls, orders, metrics,
                   serverVars>>

Next ==
    \/ RunEffect
    \/ \E i \in 1..Len(dashboardCalls) : ServeDashboard(i)
    \/ \E i \in 1..Len(dashboardCalls) : ReceiveDashboard(i)
    \/ \E i \in 1..Len(dashboardCalls) : RejectDashboard(i)
    \/ \E i \in 1..Len(adSpendCalls) : ServeAdSpend(i)
    \/ \E i \in 1..Len(adSpendCalls) : ReceiveAdSpend(i)
    \/ \E i \in 1..Len(adSpendCalls) : RejectAdSpend(i)

Spec == Init /\ [][Next]_vars

\* ------------------------------------------------------------------ properties of the load
MetricsFields ==
    {"totalRevenue", "totalCOGS", "grossProfit", "newCustomerRevenue",
     "returningCustomerRevenue", "orderCount", "averageOrderValue"}
\* the calls the server has answered
Served(calls) == {i \in 1..Len(calls) : calls[i].res.status # 0}
\* the calls that returned with a response
Received(calls) == {i \in Served(calls) : calls[i].pc = "done"}
AllReturned ==
    /\ Len(dashboardCalls) >= 1
    /\ \A i \in 1..Len(dashboardCalls) : dashboardCalls[i].pc = "done"
    /\ \A i \in 1..Len(adSpendCalls) : adSpendCalls[i].pc = "done"

prop(obj, name) == IF name \in DOMAIN obj THEN obj[name] ELSE Undefined

\* getNetProfit(): 0 without dashboardData, else dashboardData.grossProfit minus
\* (adSpendData?.totalAdSpend || 0)
getNetProfit ==
    IF Len(dashboardData) = 0 THEN Int2Num(0)
    ELSE LET chained == IF Len(adSpendData) = 0 THEN Undefined
                        ELSE prop(adSpendData[1], "totalAdSpend")
             totalAdSpend == IF Truthy(chained) THEN chained ELSE Int2Num(0)
         IN  JsSub(prop(dashboardData[1], "grossProfit"), totalAdSpend)

\* the data a fetch leaves when its calls run alone: null while no call has returned
\* with a response, else the body of one of the responses it received
LeftBy(calls, data) ==
    IF Received(calls) = {} THEN data = <<>>
    ELSE \E i \in Received(calls) : data = calls[i].res.json
\* the ad spend of the claim: adSpendData.totalAdSpend, 0 while there is none
AdSpendOrZero ==
    IF Len(adSpendData) = 1 /\ "totalAdSpend" \in DOMAIN adSpendData[1]
       /\ IsNum(adSpendData[1].totalAdSpend)
    THEN adSpendData[1].totalAdSpend
    ELSE Int2Num(0)

\* C11: the two fetches started together write disjoint state: a step of
\* fetchDashboardData leaves adSpendData alone and a step of fetchAdSpendData leaves
\* dashboardData and loading alone; so after every step of every interleaving
\* dashboardData is what the responses of fetchDashboardData alone leave and adSpendData
\* what those of fetchAdSpendData alone leave, as when the two run one after the other;
\* and the net profit shown is dashboardData.grossProfit minus adSpendData.totalAdSpend,
\* 0 standing for an ad spend that is absent.
C11_DisjointWrites ==
    [][/\ dashboardCalls' # dashboardCalls => adSpendData' = adSpendData
       /\ (adSpendCalls' # adSpendCalls /\ dashboardCalls' = dashboardCalls)
             => (dashboardData' = dashboardData /\ loading' = loading)
       /\ adSpendData' # adSpendData => adSpendCalls' # adSpendCalls
       /\ (dashboardData' # dashboardData \/ loading' # loading)
             => dashboardCalls' # dashboardCalls
       /\ LeftBy(dashboardCalls, dashboardData)'
       /\ LeftBy(adSpendCalls, adSpendData)'
       /\ Len(dashboardData') = 1 =>
             getNetProfit' = JsSub(prop(dashboardData[1], "grossProfit"), AdSpendOrZero)']_vars

\* a load whose two calls have returned with a 200: a gross profit of 4, an ad spend
\* of 5 and a net profit of -1
C11_Witness ==
    /\ AllReturned
    /\ Len(dashboardCalls) = 1
    /\ dashboardCalls[1].res.status = 200 /\ adSpendCalls[1].res.status = 200
    /\ dashboardData = dashboardCalls[1].res.json
    /\ adSpendData = adSpendCalls[1].res.json
    /\ dashboardData[1].grossProfit = Int2Num(4)
    /\ adSpendData[1].totalAdSpend = Int2Num(5)
    /\ getNetProfit = Int2Num(0 - 1)

====
